---------------------------- MODULE Spec2Model ----------------------------
(***************************************************************************)
(* A model of the in-memory key-value server of src/src/main.rs: the       *)
(* shared map behind one mutex, the command dispatcher, the per-connection *)
(* read/dispatch/write loop and the background task that removes expired   *)
(* keys.                                                                   *)
(*                                                                         *)
(* Text is modelled as a sequence of one-character strings, so that        *)
(* trimming, splitting on whitespace, upper-casing and integer parsing are *)
(* computed rather than assumed.  Time is a counter of clock ticks;        *)
(* TicksPerSec ticks make one second.                                      *)
(***************************************************************************)
EXTENDS Integers, Sequences, FiniteSets, TLC

(***************************************************************************)
(* Bounds of the model.                                                    *)
(***************************************************************************)
\* The clock stops advancing at this many ticks.
MaxClock == 5
\* The largest number of seconds a client writes after EX or EXPIRE.
MaxTTL == 1
\* The most request lines a client writes before it reads a reply.
MaxPipeline == 2

\* Clock ticks per second: the resolution at which Instant values are seen.
TicksPerSec == 2
\* The cadence of the cleanup task, in seconds (sleep(Duration::from_secs(1))).
ReaperCadence == 1

(***************************************************************************)
(* Text.                                                                   *)
(***************************************************************************)
\* char::is_whitespace, on the characters the model's clients send
IsWhitespace(ch) == ch \in {" ", "\n", "\r"}

\* char::to_uppercase, on the characters the model's clients send
UpperChar(ch) ==
    CASE ch = "e" -> "E"
      [] ch = "x" -> "X"
      [] ch = "p" -> "P"
      [] ch = "i" -> "I"
      [] ch = "n" -> "N"
      [] ch = "g" -> "G"
      [] OTHER -> ch

\* str::to_uppercase
to_uppercase(s) == [i \in 1..Len(s) |-> UpperChar(s[i])]

\* str::split_whitespace: the maximal runs of non-whitespace characters
RECURSIVE SplitFrom(_, _, _)
SplitFrom(s, i, cur) ==
    IF i > Len(s)
    THEN IF cur = <<>> THEN <<>> ELSE <<cur>>
    ELSE IF IsWhitespace(s[i])
         THEN IF cur = <<>>
              THEN SplitFrom(s, i + 1, <<>>)
              ELSE <<cur>> \o SplitFrom(s, i + 1, <<>>)
         ELSE SplitFrom(s, i + 1, Append(cur, s[i]))

split_whitespace(s) == SplitFrom(s, 1, <<>>)

\* The decimal digits
DigitChars == <<"0", "1", "2", "3", "4", "5", "6", "7", "8", "9">>

IsDigit(ch) == \E d \in 1..10 : DigitChars[d] = ch

DigitValue(ch) == (CHOOSE d \in 1..10 : DigitChars[d] = ch) - 1

\* The result of a failed parse
ParseErr == -1

RECURSIVE DecimalValue(_)
DecimalValue(s) ==
    IF s = <<>> THEN 0
    ELSE 10 * DecimalValue(SubSeq(s, 1, Len(s) - 1)) + DigitValue(s[Len(s)])

\* str::parse::<u64>: an optional "+", then one or more digits.  The numbers
\* the model's clients write have at most two digits, far below 2^64, so the
\* overflow error of the parse is out of reach.
parse_u64(s) ==
    LET digits == IF s # <<>> /\ s[1] = "+" THEN Tail(s) ELSE s
    IN  IF digits = <<>> \/ \E i \in 1..Len(digits) : ~IsDigit(digits[i])
        THEN ParseErr
        ELSE DecimalValue(digits)

\* format!("{}", n) of an unsigned integer
RECURSIVE FormatU64(_)
FormatU64(n) ==
    IF n < 10 THEN <<DigitChars[n + 1]>>
    ELSE FormatU64(n \div 10) \o <<DigitChars[(n % 10) + 1]>>

\* str::replace(from, ""), for a one-character from
RECURSIVE RemoveChar(_, _)
RemoveChar(s, ch) ==
    IF s = <<>> THEN <<>>
    ELSE IF Head(s) = ch THEN RemoveChar(Tail(s), ch)
         ELSE <<Head(s)>> \o RemoveChar(Tail(s), ch)

\* str::contains
contains(s, sub) ==
    \E i \in 0..(Len(s) - Len(sub)) : SubSeq(s, i + 1, i + Len(sub)) = sub

\* The words of the protocol
GET == <<"G", "E", "T">>
SET == <<"S", "E", "T">>
DEL == <<"D", "E", "L">>
TTL == <<"T", "T", "L">>
EX == <<"E", "X">>
KEYS == <<"K", "E", "Y", "S">>
PING == <<"P", "I", "N", "G">>
HELP == <<"H", "E", "L", "P">>
EXPIRE == <<"E", "X", "P", "I", "R", "E">>
EXISTS == <<"E", "X", "I", "S", "T", "S">>
FLUSHALL == <<"F", "L", "U", "S", "H", "A", "L", "L">>
STAR == <<"*">>
NL == <<"\n">>

\* [T]::join
RECURSIVE join(_, _)
join(ss, sep) ==
    IF ss = <<>> THEN <<>>
    ELSE IF Len(ss) = 1 THEN ss[1]
         ELSE ss[1] \o sep \o join(Tail(ss), sep)

(***************************************************************************)
(* The map: HashMap<String, RedisValue>, a function from the keys it holds *)
(* to their entries.                                                       *)
(***************************************************************************)
\* expires_at: None
NoExpiry == -1

\* ttl_seconds: None
NoTtl == -1

EmptyMap == [k \in {} |-> [value |-> <<>>, expires_at |-> NoExpiry]]

\* HashMap::insert
insert(d, k, e) == [x \in (DOMAIN d) \cup {k} |-> IF x = k THEN e ELSE d[x]]

\* HashMap::remove
remove(d, k) == [x \in (DOMAIN d) \ {k} |-> d[x]]

\* Duration::from_secs, in clock ticks
from_secs(n) == n * TicksPerSec

\* Duration::as_secs: whole seconds, rounded down
as_secs(ticks) == ticks \div TicksPerSec

\* A sleep that lasts a second longer
SleepEndLate(t) == t + from_secs(ReaperCadence) + from_secs(1)

\* sleep(Duration::from_secs(1)) begun at clock value t ends at this value
SleepEnd(t) == t + from_secs(ReaperCadence)

\* RedisValue::new, called at clock value t
RedisValueNew(value, ttl_seconds, t) ==
    [value |-> value,
     expires_at |-> IF ttl_seconds = NoTtl THEN NoExpiry
                    ELSE t + from_secs(ttl_seconds)]

\* is_expired with a deadline that is honoured one second late
is_expired_late(e, t) ==
    IF e.expires_at # NoExpiry THEN t > e.expires_at + from_secs(1) ELSE FALSE

\* RedisValue::is_expired, called at clock value t
is_expired(e, t) ==
    IF e.expires_at # NoExpiry THEN t > e.expires_at ELSE FALSE

(***************************************************************************)
(* Replies.  A reply is the sequence of the pieces of its text: a fixed    *)
(* text is one piece (the ERROR: prefix of an error reply a piece of its   *)
(* own), a formatted value is its characters.                              *)
(***************************************************************************)
ReplyOK == <<"OK", "\n">>
ReplyNil == <<"(nil)", "\n">>
ReplyOne == <<"1", "\n">>
ReplyZero == <<"0", "\n">>
ReplyNoExpiry == <<"-1", "\n">>
ReplyMissing == <<"-2", "\n">>
ReplyEmptyList == <<"(empty list)", "\n">>
ReplyPong == <<"PONG", "\n">>
ReplyHelp == <<"Available commands: GET, SET, DEL, EXISTS, EXPIRE, TTL, KEYS, FLUSHALL, PING, HELP", "\n">>
ErrEmpty == <<"ERROR:", " Empty command", "\n">>
ErrGet == <<"ERROR:", " GET requires exactly one argument", "\n">>
ErrSet == <<"ERROR:", " SET requires two arguments (key value) with optional EX/TTL", "\n">>
ErrExpire == <<"ERROR:", " EXPIRE requires exactly two arguments", "\n">>
ErrExpireSeconds == <<"ERROR:", " EXPIRE seconds must be a positive integer", "\n">>
ErrTtl == <<"ERROR:", " TTL requires exactly one argument", "\n">>
ErrDel == <<"ERROR:", " DEL requires exactly one argument", "\n">>
ErrExists == <<"ERROR:", " EXISTS requires exactly one argument", "\n">>
ErrKeys == <<"ERROR:", " KEYS requires exactly one argument", "\n">>

(***************************************************************************)
(* process_command, verb by verb.  d is the map, t the clock value the     *)
(* command samples while it holds the lock, parts the tokens of the input. *)
(***************************************************************************)
\* GET: the value followed by a newline, or (nil)
GetReply(d, t, key) ==
    IF key \in DOMAIN d /\ ~is_expired(d[key], t)
    THEN d[key].value \o NL
    ELSE ReplyNil

\* SET that takes a missing EX clause as a time to live of zero seconds
SetTtlDefaultZero(parts) ==
    IF Len(parts) >= 4 /\ to_uppercase(parts[4]) = EX /\ Len(parts) = 5
    THEN IF parse_u64(parts[5]) # ParseErr THEN parse_u64(parts[5]) ELSE 0
    ELSE 0

\* SET: the seconds of a well-formed EX clause, or None
SetTtl(parts) ==
    IF Len(parts) >= 4 /\ to_uppercase(parts[4]) = EX /\ Len(parts) = 5
    THEN IF parse_u64(parts[5]) # ParseErr THEN parse_u64(parts[5]) ELSE NoTtl
    ELSE NoTtl

\* SET that stores the key where the value belongs
SetDataWrongIndex(d, t, parts) ==
    insert(d, parts[2], RedisValueNew(parts[2], SetTtl(parts), t))

\* SET that updates the value of an entry and keeps its deadline
SetDataKeepsDeadline(d, t, parts) ==
    IF parts[2] \in DOMAIN d /\ SetTtl(parts) = NoTtl
    THEN [d EXCEPT ![parts[2]].value = parts[3]]
    ELSE insert(d, parts[2], RedisValueNew(parts[3], SetTtl(parts), t))

\* SET that stores its entry in a map of its own, not in the shared one
SetDataPrivate(d, t, parts) == d

SetData(d, t, parts) ==
    insert(d, parts[2], RedisValueNew(parts[3], SetTtl(parts), t))

\* EXPIRE: data.get_mut(key) finds every entry the map holds
ExpireFound(d, t, key) == key \in DOMAIN d

ExpireData(d, t, key, seconds) ==
    IF ExpireFound(d, t, key)
    THEN [d EXCEPT ![key].expires_at = t + from_secs(seconds)]
    ELSE d

ExpireReply(d, t, key) ==
    IF ExpireFound(d, t, key) THEN ReplyOne ELSE ReplyZero

\* TTL
TtlReply(d, t, key) ==
    IF key \in DOMAIN d
    THEN IF d[key].expires_at # NoExpiry
         THEN IF d[key].expires_at > t
              THEN FormatU64(as_secs(d[key].expires_at - t)) \o NL
              ELSE ReplyMissing
         ELSE ReplyNoExpiry
    ELSE ReplyMissing

\* DEL: data.remove(key) returns the entry the map held, if any
DelReply(d, t, key) == IF key \in DOMAIN d THEN ReplyOne ELSE ReplyZero

DelData(d, key) == remove(d, key)

\* EXISTS
ExistsReply(d, t, key) ==
    IF key \in DOMAIN d /\ ~is_expired(d[key], t) THEN ReplyOne ELSE ReplyZero

\* KEYS that takes the pattern without its stars as a prefix of the key
KeysMatchedPrefix(d, t, pattern) ==
    IF pattern = STAR
    THEN {k \in DOMAIN d : ~is_expired(d[k], t)}
    ELSE {k \in DOMAIN d :
            /\ ~is_expired(d[k], t)
            /\ Len(RemoveChar(pattern, "*")) <= Len(k)
            /\ SubSeq(k, 1, Len(RemoveChar(pattern, "*")))
                   = RemoveChar(pattern, "*")}

\* KEYS: the keys the filter keeps
KeysMatched(d, t, pattern) ==
    IF pattern = STAR
    THEN {k \in DOMAIN d : ~is_expired(d[k], t)}
    ELSE {k \in DOMAIN d :
            ~is_expired(d[k], t) /\ contains(k, RemoveChar(pattern, "*"))}

\* The orders in which the iteration over a HashMap may yield a set of keys
Orders(S) ==
    {o \in [1..Cardinality(S) -> S] :
        \A i, j \in 1..Cardinality(S) : i # j => o[i] # o[j]}

\* KEYS: every reply the command may give, one per iteration order
KeysReplies(d, t, pattern) ==
    IF KeysMatched(d, t, pattern) = {}
    THEN {ReplyEmptyList}
    ELSE {join(o, NL) \o NL : o \in Orders(KeysMatched(d, t, pattern))}

\* The keys a KEYS reply lists: its lines
KeysListed(reply) ==
    IF reply = ReplyEmptyList THEN {}
    ELSE {split_whitespace(reply)[i] : i \in 1..Len(split_whitespace(reply))}

\* FLUSHALL: HashMap::clear
FlushData(d) == EmptyMap

\* The verb of a command
Verb(parts) == to_uppercase(parts[1])

\* The arms of the match that take the lock, given their argument checks pass
NeedsLock(parts) ==
    /\ parts # <<>>
    /\ \/ Verb(parts) \in {GET, TTL, DEL, EXISTS, KEYS} /\ Len(parts) = 2
       \/ Verb(parts) = SET /\ Len(parts) >= 3 /\ Len(parts) <= 5
       \/ Verb(parts) = EXPIRE /\ Len(parts) = 3
                               /\ parse_u64(parts[3]) # ParseErr
       \/ Verb(parts) = FLUSHALL

\* A match on the verb as the client wrote it, not upper-cased
IsUnknownCommandCaseSensitive(parts) ==
    /\ parts # <<>>
    /\ parts[1] \notin
         {GET, SET, EXPIRE, TTL, DEL, EXISTS, KEYS, FLUSHALL, PING, HELP}

\* The arm of the match that returns Err(UnknownCommand)
IsUnknownCommand(parts) ==
    /\ parts # <<>>
    /\ Verb(parts) \notin
         {GET, SET, EXPIRE, TTL, DEL, EXISTS, KEYS, FLUSHALL, PING, HELP}

\* An EXPIRE that answers seconds it cannot parse as it answers a missing key
ImmediateReplyNoParseError(parts) ==
    IF parts = <<>> THEN ErrEmpty
    ELSE CASE Verb(parts) = GET -> ErrGet
           [] Verb(parts) = SET -> ErrSet
           [] Verb(parts) = EXPIRE ->
                IF Len(parts) # 3 THEN ErrExpire ELSE ReplyZero
           [] Verb(parts) = TTL -> ErrTtl
           [] Verb(parts) = DEL -> ErrDel
           [] Verb(parts) = EXISTS -> ErrExists
           [] Verb(parts) = KEYS -> ErrKeys
           [] Verb(parts) = PING -> ReplyPong
           [] OTHER -> ReplyHelp

\* The reply of a command that returns without taking the lock
ImmediateReply(parts) ==
    IF parts = <<>> THEN ErrEmpty
    ELSE CASE Verb(parts) = GET -> ErrGet
           [] Verb(parts) = SET -> ErrSet
           [] Verb(parts) = EXPIRE ->
                IF Len(parts) # 3 THEN ErrExpire ELSE ErrExpireSeconds
           [] Verb(parts) = TTL -> ErrTtl
           [] Verb(parts) = DEL -> ErrDel
           [] Verb(parts) = EXISTS -> ErrExists
           [] Verb(parts) = KEYS -> ErrKeys
           [] Verb(parts) = PING -> ReplyPong
           [] OTHER -> ReplyHelp

\* Commands that remove the expired entry they find when they read it
StoreDataLazyExpiry(d, t, parts) ==
    CASE Verb(parts) = SET -> SetData(d, t, parts)
      [] Verb(parts) = EXPIRE -> ExpireData(d, t, parts[2], parse_u64(parts[3]))
      [] Verb(parts) = DEL -> DelData(d, parts[2])
      [] Verb(parts) = FLUSHALL -> FlushData(d)
      [] Verb(parts) \in {GET, EXISTS, TTL} ->
           IF parts[2] \in DOMAIN d /\ is_expired(d[parts[2]], t)
           THEN remove(d, parts[2])
           ELSE d
      [] OTHER -> d

\* The map a command leaves, run at clock value t on map d
StoreData(d, t, parts) ==
    CASE Verb(parts) = SET -> SetData(d, t, parts)
      [] Verb(parts) = EXPIRE -> ExpireData(d, t, parts[2], parse_u64(parts[3]))
      [] Verb(parts) = DEL -> DelData(d, parts[2])
      [] Verb(parts) = FLUSHALL -> FlushData(d)
      [] OTHER -> d

\* The replies a command may give, run at clock value t on map d
StoreReplies(d, t, parts) ==
    CASE Verb(parts) = GET -> {GetReply(d, t, parts[2])}
      [] Verb(parts) = SET -> {ReplyOK}
      [] Verb(parts) = EXPIRE -> {ExpireReply(d, t, parts[2])}
      [] Verb(parts) = TTL -> {TtlReply(d, t, parts[2])}
      [] Verb(parts) = DEL -> {DelReply(d, t, parts[2])}
      [] Verb(parts) = EXISTS -> {ExistsReply(d, t, parts[2])}
      [] Verb(parts) = KEYS -> KeysReplies(d, t, parts[2])
      [] OTHER -> {ReplyOK}

(***************************************************************************)
(* What the model's clients send.                                          *)
(***************************************************************************)
\* The connections the listener may accept
Conns == {1, 2}

Keys == {<<"a">>, <<"b">>}
Values == {<<"x">>, <<"y">>}
Seconds == {FormatU64(n) : n \in 0..MaxTTL}

\* A request line: the tokens separated by one space, then a newline
Line(tokens) == join(tokens, <<" ">>) \o NL

\* The request lines of a client that sends one command and waits for its reply
CommandLines ==
    {Line(<<GET, k>>) : k \in Keys}
    \cup {Line(<<SET, k, v>>) : k \in Keys, v \in Values}
    \cup {Line(<<SET, k, <<"x">>, EX, n>>) : k \in Keys, n \in Seconds}
    \cup {Line(<<EXPIRE, k, n>>) : k \in Keys, n \in Seconds}
    \cup {Line(<<TTL, k>>) : k \in Keys}
    \cup {Line(<<DEL, k>>) : k \in Keys}
    \cup {Line(<<EXISTS, k>>) : k \in Keys}
    \cup {Line(<<KEYS, STAR>>), Line(<<FLUSHALL>>), Line(<<PING>>),
          Line(<<HELP>>)}

(***************************************************************************)
(* The state.                                                              *)
(***************************************************************************)
VARIABLES
    data,          \* the map behind the mutex
    now,           \* the monotonic clock, in ticks
    lock,          \* the task that holds the mutex, or NoHolder
    rpc,           \* the cleanup task: "sleep" or "sweep" (it holds the lock)
    wake_at,       \* the clock value at which the cleanup task's sleep ends
    expired_keys,  \* cleanup_expired_keys: the collected keys not yet removed
    pc,            \* per connection: where its handler is
    inflight,      \* per connection: the bytes sent and not yet read
    buffer,        \* per connection: the handler's read buffer
    response,      \* per connection: the reply process_command returned
    out,           \* per connection: the replies written and not yet received
    outstanding,   \* per connection: the client's request lines not yet answered
    before,        \* history: the map and the clock when the lock was taken
    serial         \* history: the map of the serial execution, where every
                   \* command and every sweep runs whole when it takes the lock

vars == <<data, now, lock, rpc, wake_at, expired_keys, pc, inflight, buffer,
          response, out, outstanding, before, serial>>

NoHolder == 0
Reaper == 3

NoBefore == [taken |-> FALSE, data |-> EmptyMap, serial |-> EmptyMap, now |-> 0]

\* The tokens of the command a handler is running
Parts(c) == split_whitespace(buffer[c])

\* RedisServer::new and main, before any connection is accepted: an empty
\* map, the cleanup task in its first sleep
Init ==
    /\ data = EmptyMap
    /\ now = 0
    /\ lock = NoHolder
    /\ rpc = "sleep"
    /\ wake_at = SleepEnd(0)
    /\ expired_keys = {}
    /\ pc = [c \in Conns |-> "none"]
    /\ inflight = [c \in Conns |-> <<>>]
    /\ buffer = [c \in Conns |-> <<>>]
    /\ response = [c \in Conns |-> <<>>]
    /\ out = [c \in Conns |-> <<>>]
    /\ outstanding = [c \in Conns |-> <<>>]
    /\ before = NoBefore
    /\ serial = EmptyMap

(***************************************************************************)
(* The clock.                                                              *)
(***************************************************************************)
Tick ==
    /\ now < MaxClock
    /\ now' = now + 1
    /\ UNCHANGED <<data, lock, rpc, wake_at, expired_keys, pc, inflight,
                   buffer, response, out, outstanding, before, serial>>

(***************************************************************************)
(* The cleanup task: loop { sleep(1 s); cleanup_expired_keys }.            *)
(***************************************************************************)
\* A collection that takes every key that carries a deadline
ExpiredKeysAnyDeadline(d, t) == {k \in DOMAIN d : d[k].expires_at # NoExpiry}

\* The keys cleanup_expired_keys collects at clock value t
ExpiredKeys(d, t) == {k \in DOMAIN d : is_expired(d[k], t)}

\* A whole sweep at clock value t
Swept(d, t) == [k \in (DOMAIN d) \ ExpiredKeys(d, t) |-> d[k]]

\* A lock that never makes a task wait
LockFreeAlways(l) == TRUE

\* Mutex::lock returns only when no task holds the mutex
LockFree(l) == l = NoHolder

\* The sleep has ended and data.lock() returns: the expired keys are collected
ReaperCollect ==
    /\ rpc = "sleep"
    /\ now >= wake_at
    /\ LockFree(lock)
    /\ lock' = Reaper
    /\ rpc' = "sweep"
    /\ expired_keys' = ExpiredKeys(data, now)
    /\ before' = [taken |-> TRUE, data |-> data, serial |-> serial, now |-> now]
    /\ serial' = Swept(serial, now)
    /\ UNCHANGED <<data, now, wake_at, pc, inflight, buffer, response, out,
                   outstanding>>

\* One turn of the loop over expired_keys: data.remove(&key)
ReaperRemove ==
    /\ rpc = "sweep"
    /\ \E k \in expired_keys :
         /\ data' = remove(data, k)
         /\ expired_keys' = expired_keys \ {k}
    /\ UNCHANGED <<now, lock, rpc, wake_at, pc, inflight, buffer, response,
                   out, outstanding, before, serial>>

\* cleanup_expired_keys returns, the guard is dropped, the next sleep begins
ReaperRelease ==
    /\ rpc = "sweep"
    /\ expired_keys = {}
    /\ lock' = NoHolder
    /\ rpc' = "sleep"
    /\ wake_at' = SleepEnd(now)
    /\ before' = NoBefore
    /\ UNCHANGED <<data, now, expired_keys, pc, inflight, buffer, response,
                   out, outstanding, serial>>

(***************************************************************************)
(* The listener and the clients.                                           *)
(***************************************************************************)
\* listener.accept() and the spawn of handle_client
Accept(c) ==
    /\ pc[c] = "none"
    /\ pc' = [pc EXCEPT ![c] = "read"]
    /\ UNCHANGED <<data, now, lock, rpc, wake_at, expired_keys, inflight,
                   buffer, response, out, outstanding, before, serial>>

\* The client writes one request line, with fewer than window lines unanswered
ClientSend(c, line, window) ==
    /\ pc[c] \notin {"none", "closed"}
    /\ Len(outstanding[c]) < window
    /\ inflight' = [inflight EXCEPT ![c] = @ \o line]
    /\ outstanding' = [outstanding EXCEPT ![c] = Append(@, line)]
    /\ UNCHANGED <<data, now, lock, rpc, wake_at, expired_keys, pc, buffer,
                   response, out, before, serial>>

\* The client reads one reply and takes it as the answer to its oldest
\* unanswered request
ClientRecv(c) ==
    /\ out[c] # <<>>
    /\ out' = [out EXCEPT ![c] = Tail(@)]
    /\ outstanding' = [outstanding EXCEPT
                         ![c] = IF @ = <<>> THEN @ ELSE Tail(@)]
    /\ UNCHANGED <<data, now, lock, rpc, wake_at, expired_keys, pc, inflight,
                   buffer, response, before, serial>>

(***************************************************************************)
(* handle_client.                                                          *)
(***************************************************************************)
\* The input handle_client passes to process_command after a read of n
\* bytes into the empty buffer: buffer[..n]
Input(buf, n) == SubSeq(buf, 1, n)

\* socket.read_buf returns n bytes; process_command parses them and either
\* returns at once (a reply, or Err for an unknown verb, which ends the
\* handler) or goes on to take the lock
HandleRead(c, n) ==
    /\ pc[c] = "read"
    /\ n \in 1..Len(inflight[c])
    /\ inflight' = [inflight EXCEPT ![c] = SubSeq(@, n + 1, Len(@))]
    /\ LET buf == buffer[c] \o SubSeq(inflight[c], 1, n)
           parts == split_whitespace(Input(buf, n))
       IN  IF NeedsLock(parts)
           THEN /\ pc' = [pc EXCEPT ![c] = "lock"]
                /\ buffer' = [buffer EXCEPT ![c] = Input(buf, n)]
                /\ UNCHANGED response
           ELSE IF IsUnknownCommand(parts)
                THEN /\ pc' = [pc EXCEPT ![c] = "closed"]
                     /\ buffer' = [buffer EXCEPT ![c] = <<>>]
                     /\ UNCHANGED response
                ELSE /\ pc' = [pc EXCEPT ![c] = "write"]
                     /\ buffer' = [buffer EXCEPT ![c] = Input(buf, n)]
                     /\ response' = [response EXCEPT
                                       ![c] = ImmediateReply(parts)]
    /\ UNCHANGED <<data, now, lock, rpc, wake_at, expired_keys, out,
                   outstanding, before, serial>>

\* self.data.lock() returns and the command's arm runs on the map.  FLUSHALL
\* goes on to clear the map.
LockAndRun(c) ==
    /\ pc[c] = "lock"
    /\ LockFree(lock)
    /\ lock' = c
    /\ before' = [taken |-> TRUE, data |-> data, serial |-> serial, now |-> now]
    /\ serial' = StoreData(serial, now, Parts(c))
    /\ IF Verb(Parts(c)) = FLUSHALL
       THEN /\ pc' = [pc EXCEPT ![c] = "clear"]
            /\ UNCHANGED <<data, response>>
       ELSE /\ pc' = [pc EXCEPT ![c] = "held"]
            /\ data' = StoreData(data, now, Parts(c))
            /\ \E r \in StoreReplies(data, now, Parts(c)) :
                 response' = [response EXCEPT ![c] = r]
    /\ UNCHANGED <<now, rpc, wake_at, expired_keys, inflight, buffer, out,
                   outstanding>>

\* HashMap::clear empties the map entry by entry; the steps can be seen only
\* by a task that reads the map without the lock
ClearStep(c) ==
    /\ pc[c] = "clear"
    /\ IF DOMAIN data = {}
       THEN /\ pc' = [pc EXCEPT ![c] = "held"]
            /\ response' = [response EXCEPT ![c] = ReplyOK]
            /\ UNCHANGED data
       ELSE /\ \E k \in DOMAIN data : data' = remove(data, k)
            /\ UNCHANGED <<pc, response>>
    /\ UNCHANGED <<now, lock, rpc, wake_at, expired_keys, inflight, buffer,
                   out, outstanding, before, serial>>

\* A guard that lives on into the socket write
UnlockAfterWrite(c) ==
    /\ pc[c] = "held"
    /\ pc' = [pc EXCEPT ![c] = "write"]
    /\ before' = NoBefore
    /\ UNCHANGED <<data, now, lock, rpc, wake_at, expired_keys, inflight,
                   buffer, response, out, outstanding, serial>>

\* process_command returns: the guard is dropped
Unlock(c) ==
    /\ pc[c] = "held"
    /\ lock' = NoHolder
    /\ pc' = [pc EXCEPT ![c] = "write"]
    /\ before' = NoBefore
    /\ UNCHANGED <<data, now, rpc, wake_at, expired_keys, inflight, buffer,
                   response, out, outstanding, serial>>

\* socket.write_all, socket.flush, buffer.clear.  A written reply carries
\* the bytes it answers, for the record.
WriteResponse(c) ==
    /\ pc[c] = "write"
    /\ out' = [out EXCEPT
                 ![c] = Append(@, [reply |-> response[c],
                                   request |-> buffer[c]])]
    /\ buffer' = [buffer EXCEPT ![c] = <<>>]
    /\ response' = [response EXCEPT ![c] = <<>>]
    /\ pc' = [pc EXCEPT ![c] = "read"]
    /\ UNCHANGED <<data, now, lock, rpc, wake_at, expired_keys, inflight,
                   outstanding, before, serial>>

(***************************************************************************)
(* One client that sends a command and waits for its reply, each request   *)
(* line delivered to the handler by one read.                              *)
(***************************************************************************)
Next ==
    \/ Tick
    \/ ReaperCollect
    \/ ReaperRemove
    \/ ReaperRelease
    \/ Accept(1)
    \/ \E line \in CommandLines : ClientSend(1, line, 1)
    \/ ClientRecv(1)
    \/ HandleRead(1, Len(inflight[1]))
    \/ LockAndRun(1)
    \/ ClearStep(1)
    \/ Unlock(1)
    \/ WriteResponse(1)

Spec == Init /\ [][Next]_vars

(***************************************************************************)
(* One client that writes up to MaxPipeline request lines before it reads  *)
(* any reply, the byte stream cut into reads at any place.  The lines      *)
(* carry no deadline, so the clock and the cleanup task are left out.      *)
(***************************************************************************)
FramingLines ==
    {Line(<<PING>>), Line(<<<<"p", "i", "n", "g">>>>), Line(<<GET, <<"a">>>>),
     Line(<<SET, <<"a">>, <<"x">>>>)}

NextFraming ==
    \/ Accept(1)
    \/ \E line \in FramingLines : ClientSend(1, line, MaxPipeline)
    \/ \E n \in 1..Len(inflight[1]) : HandleRead(1, n)
    \/ LockAndRun(1)
    \/ Unlock(1)
    \/ WriteResponse(1)

SpecFraming == Init /\ [][NextFraming]_vars

(***************************************************************************)
(* Two clients and the cleanup task, each client sending one command and   *)
(* waiting for its reply.                                                  *)
(***************************************************************************)
ConcurrentLines ==
    {Line(<<SET, <<"a">>, <<"x">>, EX, <<"0">>>>),
     Line(<<SET, <<"b">>, <<"y">>>>),
     Line(<<GET, <<"a">>>>),
     Line(<<KEYS, STAR>>),
     Line(<<FLUSHALL>>)}

NextConcurrent ==
    \/ Tick
    \/ ReaperCollect
    \/ ReaperRemove
    \/ ReaperRelease
    \/ \E c \in Conns :
         \/ Accept(c)
         \/ \E line \in ConcurrentLines : ClientSend(c, line, 1)
         \/ ClientRecv(c)
         \/ HandleRead(c, Len(inflight[c]))
         \/ LockAndRun(c)
         \/ ClearStep(c)
         \/ Unlock(c)
         \/ WriteResponse(c)

SpecConcurrent == Init /\ [][NextConcurrent]_vars

(***************************************************************************)
(* The timing under which the cleanup task keeps its cadence: the clock    *)
(* does not pass the end of the task's sleep before the task has taken the *)
(* lock, swept and begun its next sleep.  Time passes only while the task  *)
(* sleeps; commands and sweeps take no clock time.                         *)
(***************************************************************************)
TickOnCadence ==
    /\ rpc = "sleep"
    /\ now < wake_at
    /\ Tick

NextTimed ==
    \/ TickOnCadence
    \/ ReaperCollect
    \/ ReaperRemove
    \/ ReaperRelease
    \/ Accept(1)
    \/ \E line \in CommandLines : ClientSend(1, line, 1)
    \/ ClientRecv(1)
    \/ HandleRead(1, Len(inflight[1]))
    \/ LockAndRun(1)
    \/ ClearStep(1)
    \/ Unlock(1)
    \/ WriteResponse(1)

SpecTimed == Init /\ [][NextTimed]_vars

(***************************************************************************)
(* Two clients that both write and read one key, and the cleanup task.     *)
(***************************************************************************)
IsolationLines ==
    {Line(<<SET, <<"a">>, <<"x">>>>),
     Line(<<SET, <<"a">>, <<"y">>, EX, <<"0">>>>),
     Line(<<DEL, <<"a">>>>),
     Line(<<EXPIRE, <<"a">>, <<"1">>>>),
     Line(<<FLUSHALL>>),
     Line(<<GET, <<"a">>>>),
     Line(<<EXISTS, <<"a">>>>),
     Line(<<TTL, <<"a">>>>),
     Line(<<KEYS, STAR>>)}

NextIsolation ==
    \/ Tick
    \/ ReaperCollect
    \/ ReaperRemove
    \/ ReaperRelease
    \/ \E c \in Conns :
         \/ Accept(c)
         \/ \E line \in IsolationLines : ClientSend(c, line, 1)
         \/ ClientRecv(c)
         \/ HandleRead(c, Len(inflight[c]))
         \/ LockAndRun(c)
         \/ ClearStep(c)
         \/ Unlock(c)
         \/ WriteResponse(c)

SpecIsolation == Init /\ [][NextIsolation]_vars

(***************************************************************************)
(* Two clients that send malformed requests among well-formed ones, and    *)
(* the cleanup task.                                                       *)
(***************************************************************************)
ErrorLines ==
    {Line(<<>>),
     Line(<<<<"F", "O", "O">>>>),
     Line(<<<<"p", "i", "n", "g">>>>),
     Line(<<HELP>>),
     Line(<<GET>>),
     Line(<<SET, <<"a">>>>),
     Line(<<SET, <<"a">>, <<"x">>, EX, <<"1">>, <<"z">>>>),
     Line(<<EXPIRE, <<"a">>>>),
     Line(<<EXPIRE, <<"a">>, <<"x">>>>),
     Line(<<TTL>>),
     Line(<<DEL>>),
     Line(<<EXISTS>>),
     Line(<<KEYS>>),
     Line(<<SET, <<"a">>, <<"x">>, EX, <<"0">>>>),
     Line(<<GET, <<"a">>>>)}

NextErrors ==
    \/ Tick
    \/ ReaperCollect
    \/ ReaperRemove
    \/ ReaperRelease
    \/ \E c \in Conns :
         \/ Accept(c)
         \/ \E line \in ErrorLines : ClientSend(c, line, 1)
         \/ ClientRecv(c)
         \/ HandleRead(c, Len(inflight[c]))
         \/ LockAndRun(c)
         \/ Unlock(c)
         \/ WriteResponse(c)

SpecErrors == Init /\ [][NextErrors]_vars

(***************************************************************************)
(* One client that stores keys of which one is part of another and lists   *)
(* them by pattern.                                                        *)
(***************************************************************************)
PatternLines ==
    {Line(<<SET, <<"a">>, <<"x">>>>),
     Line(<<SET, <<"b", "a">>, <<"x">>, EX, <<"0">>>>),
     Line(<<SET, <<"b">>, <<"y">>>>),
     Line(<<FLUSHALL>>),
     Line(<<KEYS, STAR>>),
     Line(<<KEYS, <<"a", "*">>>>),
     Line(<<KEYS, <<"*", "b", "*">>>>),
     Line(<<KEYS, <<"*", "*">>>>),
     Line(<<KEYS, <<"c">>>>)}

NextPatterns ==
    \/ Tick
    \/ ReaperCollect
    \/ ReaperRemove
    \/ ReaperRelease
    \/ Accept(1)
    \/ \E line \in PatternLines : ClientSend(1, line, 1)
    \/ ClientRecv(1)
    \/ HandleRead(1, Len(inflight[1]))
    \/ LockAndRun(1)
    \/ ClearStep(1)
    \/ Unlock(1)
    \/ WriteResponse(1)

SpecPatterns == Init /\ [][NextPatterns]_vars

(***************************************************************************)
(* Two clients and the cleanup task under the scheduling the runtime       *)
(* gives: a task that holds the lock runs on until it has released it      *)
(* (nothing in a critical section suspends), and a task that waits for the *)
(* lock is not passed over for ever when the lock is free again and again. *)
(***************************************************************************)
\* The first client stores a key that expires at once, the second empties
\* the map
FairLines(c) ==
    IF c = 1 THEN {Line(<<SET, <<"a">>, <<"x">>, EX, <<"0">>>>)}
    ELSE {Line(<<FLUSHALL>>)}

NextFair ==
    \/ Tick
    \/ ReaperCollect
    \/ ReaperRemove
    \/ ReaperRelease
    \/ \E c \in Conns :
         \/ Accept(c)
         \/ \E line \in FairLines(c) : ClientSend(c, line, 1)
         \/ ClientRecv(c)
         \/ HandleRead(c, Len(inflight[c]))
         \/ LockAndRun(c)
         \/ ClearStep(c)
         \/ Unlock(c)
         \/ WriteResponse(c)

Fairness ==
    /\ \A c \in Conns :
         /\ SF_vars(LockAndRun(c))
         /\ WF_vars(ClearStep(c))
         /\ WF_vars(Unlock(c))
    /\ SF_vars(ReaperCollect)
    /\ WF_vars(ReaperRemove)
    /\ WF_vars(ReaperRelease)

SpecFair == Init /\ [][NextFair]_vars /\ Fairness

(***************************************************************************)
(* Vocabulary of the properties.                                           *)
(***************************************************************************)
\* Connection c has just run a command and still holds the lock; before
\* holds the map and the clock the command found
Ran(c, verb) ==
    pc[c] = "held" /\ before.taken /\ Verb(Parts(c)) = verb

\* The entry of key k carries a deadline and the clock has passed it
PastDeadline(d, t, k) ==
    k \in DOMAIN d /\ d[k].expires_at # NoExpiry /\ t > d[k].expires_at

\* Key k has no entry, or an entry whose deadline has passed
LogicallyAbsent(d, t, k) == k \notin DOMAIN d \/ PastDeadline(d, t, k)

\* GET, EXISTS, TTL and KEYS * all answer that k is not there
ReadsAbsent(d, t, k) ==
    /\ GetReply(d, t, k) = ReplyNil
    /\ ExistsReply(d, t, k) = ReplyZero
    /\ TtlReply(d, t, k) = ReplyMissing
    /\ \A r \in KeysReplies(d, t, STAR) : k \notin KeysListed(r)

\* This step is a command with one of these verbs running on key k
CommandOn(verbs, k) ==
    \E c \in Conns :
        /\ pc[c] = "lock" /\ pc'[c] = "held"
        /\ Verb(Parts(c)) \in verbs
        /\ Parts(c)[2] = k

\* This step is one of FLUSHALL's steps on the map
Flushing == \E c \in Conns : pc[c] = "clear"

(***************************************************************************)
(* C1.  Expiry visibility: once SET k v EX n has run and strictly more     *)
(* than n seconds have passed with no later SET or EXPIRE on k, GET k      *)
(* replies (nil), EXISTS k replies 0, TTL k replies -2 and KEYS * does not *)
(* list k, whether or not the cleanup task has removed the entry.  Stated  *)
(* in three parts: SET k v EX n leaves k with the deadline n seconds after *)
(* the clock value it sampled; only a SET or an EXPIRE on k changes the    *)
(* deadline of k or gives k an entry; and in every state, a key with no    *)
(* entry or with an entry whose deadline the clock has passed reads as     *)
(* absent.                                                                 *)
(***************************************************************************)
C1_SetExDeadline ==
    \A c \in Conns :
        (Ran(c, SET) /\ SetTtl(Parts(c)) # NoTtl) =>
            /\ Parts(c)[2] \in DOMAIN data
            /\ data[Parts(c)[2]].expires_at =
                   before.now + SetTtl(Parts(c)) * TicksPerSec

C1_DeadlineKept ==
    \A k \in Keys :
        ~CommandOn({SET, EXPIRE}, k) =>
            /\ k \notin DOMAIN data => k \notin DOMAIN data'
            /\ (k \in DOMAIN data /\ k \in DOMAIN data') =>
                   data'[k].expires_at = data[k].expires_at

C1_ExpiredReadsAbsent ==
    \A k \in Keys : LogicallyAbsent(data, now, k) => ReadsAbsent(data, now, k)

\* C1: past the deadline a SET k v EX n gave it, k reads as absent through
\* GET, EXISTS, TTL and KEYS *, swept or not
C1_ExpiryVisibility ==
    /\ []C1_SetExDeadline
    /\ [][C1_DeadlineKept]_vars
    /\ []C1_ExpiredReadsAbsent

\* C1, reached: a GET has just replied (nil) for a key whose entry is past
\* its deadline and still in the map
C1_Witness ==
    \E c \in Conns :
        /\ Ran(c, GET)
        /\ PastDeadline(data, before.now, Parts(c)[2])
        /\ response[c] = ReplyNil

(***************************************************************************)
(* C2.  EXPIRE k n on a key that is missing or logically absent replies 0  *)
(* and leaves the map unchanged, so a GET k right after it replies (nil).  *)
(***************************************************************************)
\* C2: EXPIRE on a missing or logically absent key replies 0 and changes
\* nothing
C2_ExpireNoResurrect ==
    \A c \in Conns :
        (Ran(c, EXPIRE)
         /\ LogicallyAbsent(before.data, before.now, Parts(c)[2])) =>
            /\ response[c] = ReplyZero
            /\ data = before.data
            /\ GetReply(data, before.now, Parts(c)[2]) = ReplyNil

(***************************************************************************)
(* C4.  DEL k replies 1 only if it removed an entry that was not expired,  *)
(* and 0 on a key that is missing or logically absent; k has no entry      *)
(* after DEL.                                                              *)
(***************************************************************************)
\* C4: DEL replies 1 only for an entry that was not expired, and k has no
\* entry afterwards
C4_DelReply ==
    \A c \in Conns :
        Ran(c, DEL) =>
            /\ response[c] = ReplyOne =>
                   ~LogicallyAbsent(before.data, before.now, Parts(c)[2])
            /\ LogicallyAbsent(before.data, before.now, Parts(c)[2]) =>
                   response[c] = ReplyZero
            /\ Parts(c)[2] \notin DOMAIN data

(***************************************************************************)
(* C5.  In every state the read commands agree on whether a key is there:  *)
(* EXISTS k replies 1 iff GET k replies a value iff KEYS * lists k iff     *)
(* TTL k replies something other than -2, also at the instant the clock    *)
(* equals the deadline of k.                                               *)
(***************************************************************************)
\* C5: EXISTS, GET, KEYS * and TTL agree on whether k is there
C5_ReadersAgree ==
    \A k \in Keys :
        /\ ExistsReply(data, now, k) = ReplyOne
               <=> GetReply(data, now, k) # ReplyNil
        /\ ExistsReply(data, now, k) = ReplyOne
               <=> \A r \in KeysReplies(data, now, STAR) : k \in KeysListed(r)
        /\ ExistsReply(data, now, k) = ReplyOne
               <=> TtlReply(data, now, k) # ReplyMissing

(***************************************************************************)
(* C6.  SET k v without an EX clause replaces any prior entry of k         *)
(* completely: k then has value v and no deadline, whatever deadline the   *)
(* prior entry carried and whether or not it had expired, and TTL k        *)
(* replies -1; the entry stays, with no deadline and never expired, until  *)
(* a later command writes k (SET, EXPIRE, DEL or FLUSHALL).                *)
(***************************************************************************)
\* The SET command has exactly a key and a value
PlainSet(c) == Ran(c, SET) /\ Len(Parts(c)) = 3

C6_SetReplaces ==
    \A c \in Conns :
        PlainSet(c) =>
            /\ Parts(c)[2] \in DOMAIN data
            /\ data[Parts(c)[2]] =
                   [value |-> Parts(c)[3], expires_at |-> NoExpiry]
            /\ TtlReply(data, now, Parts(c)[2]) = ReplyNoExpiry

C6_NoDeadlineStays ==
    \A k \in Keys :
        (/\ k \in DOMAIN data
         /\ data[k].expires_at = NoExpiry
         /\ ~CommandOn({SET, EXPIRE, DEL}, k)
         /\ ~Flushing) =>
            /\ k \in DOMAIN data'
            /\ data'[k] = data[k]
            /\ ~is_expired(data'[k], now')
            /\ TtlReply(data', now', k) = ReplyNoExpiry

\* C6: SET k v without EX leaves k with value v and no deadline, and the
\* entry stays so until a command writes k
C6_SetClearsDeadline == []C6_SetReplaces /\ [][C6_NoDeadlineStays]_vars

\* C6, reached: a SET without EX has just replaced an entry that carried a
\* deadline and had expired
C6_Witness ==
    \E c \in Conns :
        /\ PlainSet(c)
        /\ PastDeadline(before.data, before.now, Parts(c)[2])
        /\ data[Parts(c)[2]].expires_at = NoExpiry

(***************************************************************************)
(* C7.  Round trip: SET k v followed by GET k, with no write to k in       *)
(* between, replies exactly v, from any prior state of the map.  Stated in *)
(* three parts: after SET k v a GET k would reply v; a step that is not a  *)
(* command writing k keeps the reply GET k would give for an entry with no *)
(* deadline; and a GET k that runs replies the value of the entry it       *)
(* finds.                                                                  *)
(***************************************************************************)
C7_SetThenGet ==
    \A c \in Conns :
        PlainSet(c) => GetReply(data, now, Parts(c)[2]) = Parts(c)[3] \o NL

C7_GetReplyKept ==
    \A k \in Keys :
        (/\ k \in DOMAIN data
         /\ data[k].expires_at = NoExpiry
         /\ ~CommandOn({SET, EXPIRE, DEL}, k)
         /\ ~Flushing) =>
            GetReply(data', now', k) = GetReply(data, now, k)

C7_GetRepliesValue ==
    \A c \in Conns :
        (/\ Ran(c, GET)
         /\ Parts(c)[2] \in DOMAIN before.data
         /\ before.data[Parts(c)[2]].expires_at = NoExpiry) =>
            response[c] = before.data[Parts(c)[2]].value \o NL

\* C7: SET k v, then GET k with no write to k in between, replies v
C7_RoundTrip ==
    /\ []C7_SetThenGet
    /\ [][C7_GetReplyKept]_vars
    /\ []C7_GetRepliesValue

\* C7, reached: a GET has just replied the value y of an entry with no
\* deadline
C7_Witness ==
    \E c \in Conns :
        /\ Ran(c, GET)
        /\ Parts(c)[2] \in DOMAIN before.data
        /\ before.data[Parts(c)[2]].expires_at = NoExpiry
        /\ response[c] = <<"y", "\n">>

(***************************************************************************)
(* C8.  A sweep removes only entries whose deadline is already in the      *)
(* past: no step of a sweep removes an entry with no deadline or with a    *)
(* deadline that is not yet past, and no step of a sweep changes the reply *)
(* GET would give for any key.                                             *)
(***************************************************************************)
C8_RemoveStep ==
    ReaperRemove =>
        \A k \in DOMAIN data :
            /\ k \notin DOMAIN data' =>
                   /\ data[k].expires_at # NoExpiry
                   /\ data[k].expires_at < now
            /\ k \in DOMAIN data' => data'[k] = data[k]
            /\ GetReply(data', now', k) = GetReply(data, now, k)

\* C8: every removal of a sweep takes an entry whose deadline is in the
\* past and changes no reply of GET
C8_SweepOnlyExpired == [][C8_RemoveStep]_vars

\* C8, reached: a sweep has removed an entry and kept another that carries
\* a deadline
C8_Witness ==
    /\ rpc = "sweep"
    /\ before.taken
    /\ \E k \in DOMAIN before.data : k \notin DOMAIN data
    /\ \E k \in DOMAIN data : data[k].expires_at # NoExpiry

(***************************************************************************)
(* C3.  On one connection every newline-terminated request line is         *)
(* dispatched as its own command and gets exactly one reply, the replies   *)
(* in the order of the lines, however the byte stream is cut into reads.   *)
(* The client's lines here all carry a known verb, so none may end the     *)
(* connection.  The bytes a handler dispatches are the oldest request line *)
(* not yet answered; each reply written answers the request line at its    *)
(* place in the order; once every byte sent has been read and answered,    *)
(* there are as many replies as lines.                                     *)
(***************************************************************************)
\* C3: one command and one reply per request line, in order, for every way
\* the bytes are cut into reads
C3_OneReplyPerLine ==
    \A c \in Conns :
        /\ pc[c] # "closed"
        /\ Len(out[c]) <= Len(outstanding[c])
        /\ \A i \in 1..Len(out[c]) :
               i <= Len(outstanding[c]) =>
                   out[c][i].request = outstanding[c][i]
        /\ (pc[c] \in {"lock", "held", "write"}
            /\ Len(out[c]) < Len(outstanding[c])) =>
               buffer[c] = outstanding[c][Len(out[c]) + 1]
        /\ (pc[c] = "read" /\ inflight[c] = <<>>) =>
               Len(out[c]) = Len(outstanding[c])

Inside ==
    {c \in Conns : pc[c] \in {"clear", "held"}}
    \cup (IF rpc = "sweep" THEN {Reaper} ELSE {})

\* C10: mutual exclusion of the work on the map, and equality with the
\* serial execution
C10_Atomic ==
    /\ Cardinality(Inside) <= 1
    /\ Inside = {} <=> lock = NoHolder
    /\ Inside # {} => lock \in Inside
    /\ lock = NoHolder => data = serial
    /\ before.taken => before.data = before.serial
    /\ (rpc = "sweep" /\ expired_keys = {}) => data = serial
    /\ \A c \in Conns :
           pc[c] = "held" =>
               /\ data = serial
               /\ response[c] \in
                      StoreReplies(before.serial, before.now, Parts(c))

\* C10, reached: one connection is half-way through FLUSHALL, the other has
\* a command read and waits for the lock, and the cleanup task's sleep has
\* ended
C10_Witness ==
    \E c1, c2 \in Conns :
        /\ pc[c1] = "clear"
        /\ DOMAIN data # {}
        /\ DOMAIN data # DOMAIN before.data
        /\ pc[c2] = "lock"
        /\ rpc = "sleep" /\ now >= wake_at

(***************************************************************************)
(* C11.  Isolation across connections: once connection A has received the  *)
(* reply to a write (SET, DEL, EXPIRE, FLUSHALL), every read (GET, EXISTS, *)
(* TTL, KEYS) dispatched afterwards on another connection observes that    *)
(* write or a later write to the same key.  Stated in three parts: when a  *)
(* write has run, and so before its reply exists, its effect is in the     *)
(* map; the entry of a key changes only by a write to that key or by the   *)
(* removal of an entry past its deadline, which no read can tell from the  *)
(* entry; and a read that runs replies what the map holds at that moment.  *)
(***************************************************************************)
ReadVerbs == {GET, EXISTS, TTL, KEYS}

\* The entry of key k differs between the maps d1 and d2
EntryDiffers(d1, d2, k) ==
    \/ (k \in DOMAIN d1) # (k \in DOMAIN d2)
    \/ k \in DOMAIN d1 /\ k \in DOMAIN d2 /\ d1[k] # d2[k]

C11_WriteInMap ==
    \A c \in Conns :
        /\ Ran(c, SET) =>
               /\ Parts(c)[2] \in DOMAIN data
               /\ data[Parts(c)[2]].value = Parts(c)[3]
        /\ Ran(c, DEL) => Parts(c)[2] \notin DOMAIN data
        /\ (Ran(c, EXPIRE) /\ response[c] = ReplyOne) =>
               /\ Parts(c)[2] \in DOMAIN data
               /\ data[Parts(c)[2]].expires_at =
                      before.now + parse_u64(Parts(c)[3]) * TicksPerSec
        /\ Ran(c, FLUSHALL) => data = EmptyMap

C11_OnlyWritesChange ==
    \A k \in Keys :
        EntryDiffers(data, data', k) =>
            \/ CommandOn({SET, DEL, EXPIRE}, k)
            \/ Flushing
            \/ ReaperRemove /\ PastDeadline(data, now, k)

C11_ReadSeesMap ==
    \A c \in Conns :
        (pc[c] = "lock" /\ pc'[c] = "held" /\ Verb(Parts(c)) \in ReadVerbs) =>
            LET k == Parts(c)[2]
                r == response'[c]
            IN  /\ data' = data
                /\ Verb(Parts(c)) = GET =>
                       r = IF LogicallyAbsent(data, now, k) THEN ReplyNil
                           ELSE data[k].value \o NL
                /\ Verb(Parts(c)) = EXISTS =>
                       r = IF LogicallyAbsent(data, now, k) THEN ReplyZero
                           ELSE ReplyOne
                /\ Verb(Parts(c)) = TTL =>
                       /\ LogicallyAbsent(data, now, k) => r = ReplyMissing
                       /\ r = ReplyNoExpiry <=>
                              (k \in DOMAIN data
                               /\ data[k].expires_at = NoExpiry)
                /\ Verb(Parts(c)) = KEYS =>
                       KeysListed(r) =
                           {j \in DOMAIN data : ~LogicallyAbsent(data, now, j)}

\* C11: a write is in the shared map before its reply exists, entries change
\* only by writes, and every read replies what the shared map holds
C11_Isolation ==
    /\ []C11_WriteInMap
    /\ [][C11_OnlyWritesChange]_vars
    /\ [][C11_ReadSeesMap]_vars

\* C11, reached: the reply to SET a x of one connection is written and not
\* yet received, and a GET a of the other connection has just replied x
C11_Witness ==
    \E c1, c2 \in Conns :
        /\ c1 # c2
        /\ out[c1] # <<>>
        /\ out[c1][1].request = Line(<<SET, <<"a">>, <<"x">>>>)
        /\ Ran(c2, GET)
        /\ response[c2] = <<"x", "\n">>

(***************************************************************************)
(* C12.  A request whose verb is unknown makes the handler close that      *)
(* connection without changing the map, and it is the only kind of command *)
(* that ends a session: after any other command, one that gets an ERROR:   *)
(* reply included, the handler goes back to reading.  The step that closes *)
(* a connection changes nothing of any other connection or of the cleanup  *)
(* task, and a closed connection holds no lock.                            *)
(***************************************************************************)
\* The verbs of the protocol
KnownVerbs == {GET, SET, DEL, EXISTS, EXPIRE, TTL, KEYS, FLUSHALL, PING, HELP}

\* The request has a first token that, upper-cased, is none of the verbs
UnknownRequest(req) ==
    /\ split_whitespace(req) # <<>>
    /\ to_uppercase(split_whitespace(req)[1]) \notin KnownVerbs

\* This step is the handler of c dispatching the request it has read
Dispatches(c) == pc[c] = "read" /\ pc'[c] # "read"

\* The bytes the read of this step took from the connection: the request
ReadBytes(c) == SubSeq(inflight[c], 1, Len(inflight[c]) - Len(inflight'[c]))

C12_Closes ==
    \A c \in Conns :
        /\ Dispatches(c) =>
               (pc'[c] = "closed" <=> UnknownRequest(ReadBytes(c)))
        /\ (pc[c] # "closed" /\ pc'[c] = "closed") =>
               /\ Dispatches(c)
               /\ UNCHANGED <<data, now, lock, rpc, wake_at, expired_keys,
                              response, out, outstanding>>
               /\ \A c2 \in Conns \ {c} :
                      /\ pc'[c2] = pc[c2]
                      /\ inflight'[c2] = inflight[c2]
                      /\ buffer'[c2] = buffer[c2]
        /\ (pc[c] = "write" /\ pc'[c] # "write") => pc'[c] = "read"
        /\ (pc[c] = "held" /\ pc'[c] # "held") => pc'[c] = "write"
        /\ (pc[c] = "lock" /\ pc'[c] # "lock") => pc'[c] = "held"

C12_ClosedIsOut ==
    \A c \in Conns :
        /\ pc[c] = "closed" => lock # c
        /\ pc[c] \in {"lock", "held", "write"} => ~UnknownRequest(buffer[c])

\* C12: only a request with an unknown verb closes its connection, and it
\* changes nothing else
C12_UnknownVerbCloses == []C12_ClosedIsOut /\ [][C12_Closes]_vars

\* C12, reached: one connection is closed while the other has an ERROR:
\* reply to write and the cleanup task is sweeping
C12_Witness ==
    \E c1, c2 \in Conns :
        /\ pc[c1] = "closed"
        /\ pc[c2] = "write"
        /\ response[c2][1] = "ERROR:"
        /\ rpc = "sweep"

(***************************************************************************)
(* C13.  An empty request, a wrong argument count for GET, SET, DEL,       *)
(* EXISTS, EXPIRE, TTL or KEYS, and a non-integer seconds argument to      *)
(* EXPIRE each produce a single reply line starting with ERROR:, leave the *)
(* map exactly as it was, and leave the connection open for the next       *)
(* request.                                                                *)
(***************************************************************************)
\* The text is not an optional sign followed by digits
NonInteger(s) ==
    \/ s = <<>>
    \/ \E i \in 1..Len(s) :
         ~IsDigit(s[i]) /\ ~(i = 1 /\ Len(s) > 1 /\ s[1] \in {"+", "-"})

\* The request is one of the malformed requests of the claim
ErrorRequest(req) ==
    LET parts == split_whitespace(req)
        verb == to_uppercase(parts[1])
    IN  \/ parts = <<>>
        \/ /\ parts # <<>>
           /\ \/ verb \in {GET, DEL, EXISTS, TTL, KEYS} /\ Len(parts) # 2
              \/ verb = SET /\ (Len(parts) < 3 \/ Len(parts) > 5)
              \/ verb = EXPIRE /\ Len(parts) # 3
              \/ verb = EXPIRE /\ Len(parts) = 3 /\ NonInteger(parts[3])

\* The reply is one line that starts with ERROR:
ErrorLine(reply) ==
    /\ Len(reply) >= 2
    /\ reply[1] = "ERROR:"
    /\ reply[Len(reply)] = "\n"
    /\ \A i \in 1..(Len(reply) - 1) : reply[i] # "\n"

C13_ErrorReplied ==
    \A c \in Conns :
        (Dispatches(c) /\ ErrorRequest(ReadBytes(c))) =>
            /\ pc'[c] = "write"
            /\ ErrorLine(response'[c])
            /\ data' = data

C13_ReplyWritten ==
    \A c \in Conns :
        (pc[c] = "write" /\ pc'[c] # "write" /\ ErrorRequest(buffer[c])) =>
            /\ pc'[c] = "read"
            /\ out'[c] = Append(out[c], [reply |-> response[c],
                                         request |-> buffer[c]])
            /\ data' = data

\* C13: a malformed request gets one ERROR: line, changes nothing in the map
\* and leaves the connection reading
C13_InBandErrors == [][C13_ErrorReplied /\ C13_ReplyWritten]_vars

\* C13, reached: the map holds an entry and a connection is back at reading
\* after its ERROR: reply to EXPIRE a x was written
C13_Witness ==
    \E c \in Conns :
        /\ pc[c] = "read"
        /\ out[c] # <<>>
        /\ out[c][Len(out[c])].request = Line(<<EXPIRE, <<"a">>, <<"x">>>>)
        /\ ErrorLine(out[c][Len(out[c])].reply)
        /\ DOMAIN data # {}

(***************************************************************************)
(* C14.  KEYS pat with pat other than * replies with exactly the set of    *)
(* non-expired keys that contain, as a substring, pat with all its *       *)
(* characters removed; KEYS * replies with exactly the set of non-expired  *)
(* keys; the reply is (empty list) iff that set is empty.  After FLUSHALL  *)
(* and before any later SET, KEYS * replies (empty list): FLUSHALL leaves  *)
(* the map empty, an empty map lists as (empty list), and a key gets an    *)
(* entry only by a SET on it.                                              *)
(***************************************************************************)
\* The pattern without its stars
Stripped(pattern) == SelectSeq(pattern, LAMBDA ch : ch # "*")

\* Some stretch of the key is the text
HasSubstring(key, text) ==
    \E i, j \in 0..Len(key) : i <= j /\ SubSeq(key, i + 1, j) = text

\* The keys the claim says KEYS pattern lists on map d at clock value t
KeysExpected(d, t, pattern) ==
    {k \in DOMAIN d :
        /\ ~PastDeadline(d, t, k)
        /\ pattern # STAR => HasSubstring(k, Stripped(pattern))}

C14_KeysReply ==
    \A c \in Conns :
        Ran(c, KEYS) =>
            LET expected ==
                    KeysExpected(before.data, before.now, Parts(c)[2])
            IN  /\ KeysListed(response[c]) = expected
                /\ response[c] = ReplyEmptyList <=> expected = {}
                /\ response[c] # ReplyEmptyList =>
                       /\ Len(split_whitespace(response[c]))
                              = Cardinality(expected)
                       /\ response[c][Len(response[c])] = "\n"

C14_FlushEmpties ==
    /\ \A c \in Conns : Ran(c, FLUSHALL) => data = EmptyMap
    /\ data = EmptyMap => KeysReplies(data, now, STAR) = {ReplyEmptyList}

C14_OnlySetAdds ==
    \/ DOMAIN data' \subseteq DOMAIN data
    \/ \E c \in Conns :
         /\ pc[c] = "lock" /\ pc'[c] = "held"
         /\ Verb(Parts(c)) = SET
         /\ DOMAIN data' = DOMAIN data \cup {Parts(c)[2]}

\* C14: KEYS lists exactly the non-expired keys that contain the pattern
\* without its stars, and (empty list) iff there is none
C14_KeysPattern ==
    /\ []C14_KeysReply
    /\ []C14_FlushEmpties
    /\ [][C14_OnlySetAdds]_vars

\* C14, reached: KEYS a* has just listed a and ba while the map also holds b
C14_Witness ==
    \E c \in Conns :
        /\ Ran(c, KEYS)
        /\ Parts(c)[2] = <<"a", "*">>
        /\ KeysListed(response[c]) = {<<"a">>, <<"b", "a">>}
        /\ <<"b">> \in DOMAIN before.data

(***************************************************************************)
(* C15.  TTL monotonicity: immediately after SET k v EX n, TTL k replies a *)
(* value in [0, n], and as long as no SET, EXPIRE, DEL or FLUSHALL touches *)
(* k, the values replied by consecutive TTL k reads are non-increasing as  *)
(* the clock advances.                                                     *)
(***************************************************************************)
\* The number a TTL reply carries
TtlNumber(reply) ==
    IF reply = ReplyMissing THEN -2
    ELSE IF reply = ReplyNoExpiry THEN -1
    ELSE parse_u64(SubSeq(reply, 1, Len(reply) - 1))

\* The clock values of the TTL reads that may follow
LaterClock == now..(now + (MaxTTL + 1) * TicksPerSec)

C15_AfterSetEx ==
    \A c \in Conns :
        (Ran(c, SET) /\ SetTtl(Parts(c)) # NoTtl) =>
            TtlNumber(TtlReply(data, before.now, Parts(c)[2]))
                \in 0..SetTtl(Parts(c))

C15_NonIncreasing ==
    \A k \in DOMAIN data :
        \A t1, t2 \in LaterClock :
            t1 <= t2 =>
                TtlNumber(TtlReply(data, t2, k))
                    <= TtlNumber(TtlReply(data, t1, k))

\* C15: TTL k is in [0, n] right after SET k v EX n and never increases
\* while the entry of k is left alone
C15_TtlMonotone == C15_AfterSetEx /\ C15_NonIncreasing

(***************************************************************************)
(* C16.  TTL k replies -1 exactly when k is present with no deadline, -2   *)
(* exactly when k is missing or logically expired, and otherwise the whole *)
(* number of seconds, rounded down, between the clock and the deadline of  *)
(* k.  After a successful EXPIRE k n on a present key, TTL k replies a     *)
(* value in [0, n]; EXPIRE on a key that does not exist replies 0.         *)
(***************************************************************************)
C16_Ttl ==
    \A c \in Conns :
        Ran(c, TTL) =>
            LET k == Parts(c)[2]
                d == before.data
                t == before.now
            IN  /\ response[c] = ReplyNoExpiry <=>
                       (k \in DOMAIN d /\ d[k].expires_at = NoExpiry)
                /\ response[c] = ReplyMissing <=> LogicallyAbsent(d, t, k)
                /\ response[c] \notin {ReplyNoExpiry, ReplyMissing} =>
                       response[c] =
                           FormatU64((d[k].expires_at - t) \div TicksPerSec)
                               \o NL

C16_Expire ==
    \A c \in Conns :
        Ran(c, EXPIRE) =>
            LET k == Parts(c)[2]
            IN  /\ (response[c] = ReplyOne
                    /\ ~LogicallyAbsent(before.data, before.now, k)) =>
                       TtlNumber(TtlReply(data, before.now, k))
                           \in 0..parse_u64(Parts(c)[3])
                /\ k \notin DOMAIN before.data => response[c] = ReplyZero

\* C16: the three replies of TTL, TTL in [0, n] after a successful EXPIRE
\* k n, and 0 from EXPIRE on a key that does not exist
C16_TtlAndExpire == C16_Ttl /\ C16_Expire

(***************************************************************************)
(* C17.  Idempotent overwrite: from any reachable state of the map,        *)
(* applying SET k v twice in succession leaves the map in the same state   *)
(* (same keys, same values, same deadlines) as applying it once.  The      *)
(* second SET runs at the clock value of the first or at a later one.      *)
(***************************************************************************)
\* C17: the map a SET k v has left is the map a second SET k v leaves
C17_IdempotentSet ==
    \A c \in Conns :
        PlainSet(c) =>
            \A t \in before.now..MaxClock :
                /\ DOMAIN SetData(data, t, Parts(c)) = DOMAIN data
                /\ \A k \in DOMAIN data :
                       /\ SetData(data, t, Parts(c))[k].value = data[k].value
                       /\ SetData(data, t, Parts(c))[k].expires_at
                              = data[k].expires_at

\* C17, reached: a SET a y has just run, at a later clock value, on the map
\* an earlier SET a y left, and another key carries a deadline
C17_Witness ==
    \E c \in Conns :
        /\ PlainSet(c)
        /\ Parts(c) = <<SET, <<"a">>, <<"y">>>>
        /\ before.now > 0
        /\ <<"a">> \in DOMAIN before.data
        /\ before.data[<<"a">>] = [value |-> <<"y">>, expires_at |-> NoExpiry]
        /\ data = before.data
        /\ <<"b">> \in DOMAIN data
        /\ data[<<"b">>].expires_at # NoExpiry

(***************************************************************************)
(* C18.  After a sweep run at clock value now, the map holds no entry      *)
(* whose deadline is less than or equal to now; entries with no deadline   *)
(* or a deadline greater than now are all still present with unchanged     *)
(* value and deadline.                                                     *)
(***************************************************************************)
\* The cleanup task has removed every key it collected and still holds the
\* lock; before holds the map and the clock value of the sweep
SweepDone == rpc = "sweep" /\ expired_keys = {} /\ before.taken

\* C18: a sweep leaves no entry with a deadline at or before its clock value
\* and keeps every other entry as it was
C18_SweepResult ==
    SweepDone =>
        /\ \A k \in DOMAIN data :
               data[k].expires_at = NoExpiry
               \/ data[k].expires_at > before.now
        /\ \A k \in DOMAIN before.data :
               (before.data[k].expires_at = NoExpiry
                \/ before.data[k].expires_at > before.now) =>
                   /\ k \in DOMAIN data
                   /\ data[k] = before.data[k]

(***************************************************************************)
(* C19.  No task holds the lock while it is at a suspension point: a       *)
(* connection task never holds it during a socket read, write or flush,    *)
(* and the cleanup task never holds it during its sleep.  Each critical    *)
(* section runs one command's work on the map or one sweep to completion,  *)
(* so every task waiting for the lock eventually gets it and no set of     *)
(* connections and the cleanup task can deadlock.                          *)
(***************************************************************************)
C19_NotWhileSuspended ==
    /\ \A c \in Conns :
           pc[c] \in {"none", "read", "lock", "write", "closed"} => lock # c
    /\ rpc = "sleep" => lock # Reaper

C19_HolderCanGoOn ==
    /\ lock \in {NoHolder, Reaper} \cup Conns
    /\ \A c \in Conns : lock = c => ENABLED (ClearStep(c) \/ Unlock(c))
    /\ lock = Reaper => ENABLED (ReaperRemove \/ ReaperRelease)
    /\ lock = NoHolder =>
           /\ \A c \in Conns : pc[c] = "lock" => ENABLED LockAndRun(c)
           /\ (rpc = "sleep" /\ now >= wake_at) => ENABLED ReaperCollect

C19_WaiterGetsLock ==
    /\ \A c \in Conns : (pc[c] = "lock") ~> (lock = c)
    /\ (rpc = "sleep" /\ now >= wake_at) ~> (lock = Reaper)

DispatchedVerb(c) == to_uppercase(split_whitespace(ReadBytes(c))[1])

C20_ReadsKeepMap ==
    \A c \in Conns :
        /\ (Dispatches(c) /\ split_whitespace(ReadBytes(c)) # <<>>
            /\ DispatchedVerb(c) \in ReadVerbs \cup {PING, HELP}) =>
               data' = data
        /\ (pc[c] \in {"lock", "held", "write"} /\ pc'[c] # pc[c]
            /\ Verb(Parts(c)) \in ReadVerbs \cup {PING, HELP}) =>
               data' = data

C20_EntryLeaves ==
    \A k \in Keys :
        /\ (k \in DOMAIN data /\ k \notin DOMAIN data') =>
               \/ ReaperRemove
               \/ CommandOn({DEL}, k)
               \/ Flushing
        /\ (k \in DOMAIN data /\ k \in DOMAIN data' /\ data'[k] # data[k]) =>
               CommandOn({SET, EXPIRE}, k)

C20_ExpireFrame ==
    \A c \in Conns :
        (pc[c] = "lock" /\ pc'[c] = "held" /\ Verb(Parts(c)) = EXPIRE) =>
            /\ DOMAIN data' = DOMAIN data
            /\ \A k \in DOMAIN data :
                   /\ data'[k].value = data[k].value
                   /\ k # Parts(c)[2] => data'[k] = data[k]

\* C20: the reading commands change nothing in the map, and EXPIRE changes
\* the deadline of its key only
C20_Frame == [][C20_ReadsKeepMap /\ C20_EntryLeaves /\ C20_ExpireFrame]_vars

\* C20, reached: a TTL has just answered -2 for an entry past its deadline
\* and the entry is still in the map, beside an entry of another key
C20_Witness ==
    \E c \in Conns :
        /\ Ran(c, TTL)
        /\ PastDeadline(before.data, before.now, Parts(c)[2])
        /\ response[c] = ReplyMissing
        /\ Parts(c)[2] \in DOMAIN data
        /\ data = before.data
        /\ Cardinality(DOMAIN data) = 2

=============================================================================
